---- MODULE Spec2Model ----
(***************************************************************************)
(* A model of pico (src/src/main.c): a read-only terminal text viewer.     *)
(* The process is a single thread: enable_raw_mode, init_editor,           *)
(* editor_open, then forever refresh_screen and process_key_press.         *)
(*                                                                         *)
(* Keyboard bytes are the int values of the C chars; file bytes and the    *)
(* bytes of the frame are one-character strings.  malloc/realloc are       *)
(* taken to succeed.                                                       *)
(***************************************************************************)
EXTENDS Integers, Sequences, FiniteSets, TLC

VARIABLES
  pc,               \* position of the process in main()
  tty,              \* the terminal's attributes: "orig" or "raw"
  orig_termios,     \* config.orig_termios: "unset" until tcgetattr stored it
  atexit_registered,\* atexit(disable_raw_mode) has been called
  disable_ran,      \* disable_raw_mode: "not run", "restored" or "tcsetattr failed"
  exit_status,      \* status the process exited with (NoStatus while running)
  exit_cause,       \* "none", "quit" (Ctrl-Q) or "fatal" (die)
  config,           \* struct editor_config, without orig_termios
  file,             \* argv[1]: the bytes of the file, or NoArg when argc < 2
  frame,            \* the bytes the last successful frame write put on stdout
  io_failed,        \* a read or write of the render loop failed with a real error
  stdin,            \* KeySpec: the results of the read() calls of the read_key under check
  key,              \* c of process_key_press: KeySpec: the value read_key returned;
                    \* Spec: the editor key (1000 ..) it returned, NoKey for a
                    \* plain byte (the switch has no case for it) and once the
                    \* next frame is drawn
  events            \* what the current iteration of the main loop has done so far

vars == <<pc, tty, orig_termios, atexit_registered, disable_ran, exit_status,
          exit_cause, config, file, frame, io_failed, stdin, key, events>>

(***************************************************************************)
(* Bounds                                                                  *)
(***************************************************************************)
MaxTermRows == 2      \* small terminal heights 0..MaxTermRows
MaxTermCols == 3      \* small terminal widths 0..MaxTermCols
MaxFileLen == 3       \* files of at most this many bytes
MaxIdle == 1          \* empty reads before the first byte of a key

(***************************************************************************)
(* Constants of the program                                                *)
(***************************************************************************)
ARROW_LEFT == 1000
ARROW_RIGHT == 1001
ARROW_UP == 1002
ARROW_DOWN == 1003
DEL_KEY == 1004
HOME_KEY == 1005
END_KEY == 1006
PAGE_UP == 1007
PAGE_DOWN == 1008

ESC == 27             \* '\x1b'
EAGAIN == 11
EIO == 5              \* stands for every errno other than EAGAIN
NoKey == -1
NoStatus == -1
NoArg == <<"no file argument">>

\* CTRL_KEY(k) is (k) & 0x1f; for a char k >= 0 that is k modulo 32.
CTRL_KEY(k) == k % 32

\* C's int division truncates toward zero.
CDiv(a, b) == IF a >= 0 THEN a \div b ELSE -((-a) \div b)

(***************************************************************************)
(* Terminal mode controller                                                *)
(***************************************************************************)

\* exit() called again from inside an atexit handler is undefined: the
\* builds at hand finish the remaining handlers and leave with the inner
\* status, or end abnormally (134 stands for a death by signal).
RecursiveExitStatus == {1, 134}

\* disable_raw_mode as exit()'s handler: tcsetattr(saved) succeeds
\* (restore_ok) or fails, and then die() calls exit(1) a second time.
disable_raw_mode(status, cause, saved, restore_ok) ==
  IF restore_ok
    THEN /\ disable_ran' = "restored"
         /\ tty' = saved
         /\ exit_status' = status
         /\ exit_cause' = cause
    ELSE /\ disable_ran' = "tcsetattr failed"
         /\ tty' = tty
         /\ exit_status' \in RecursiveExitStatus
         /\ exit_cause' = "fatal"

\* exit(status) with the handler list and saved attributes as they are at
\* the call: the registered handler runs, then the process is gone.
run_exit(status, cause, registered, saved, restore_ok) ==
  /\ pc' = "exited"
  /\ IF registered
       THEN disable_raw_mode(status, cause, saved, restore_ok)
       ELSE /\ exit_status' = status
            /\ exit_cause' = cause
            /\ UNCHANGED <<tty, disable_ran>>

exit_process(status, cause, restore_ok) ==
  run_exit(status, cause, atexit_registered, orig_termios, restore_ok)

\* die() leaving with status 0.
die_status_0(restore_ok) == exit_process(0, "fatal", restore_ok)

\* die(): clear the screen, perror, exit(1).
die(restore_ok) == exit_process(1, "fatal", restore_ok)

\* enable_raw_mode with the handler registration left out.
enable_raw_mode_no_atexit ==
  /\ pc = "start"
  /\ \E get_ok, set_ok, restore_ok \in BOOLEAN :
       IF ~get_ok
         THEN /\ die(restore_ok)
              /\ UNCHANGED <<orig_termios, atexit_registered>>
         ELSE /\ orig_termios' = "orig"
              /\ atexit_registered' = atexit_registered
              /\ IF set_ok
                   THEN /\ tty' = "raw"
                        /\ pc' = "init"
                        /\ UNCHANGED <<disable_ran, exit_status, exit_cause>>
                   ELSE run_exit(1, "fatal", atexit_registered, "orig", restore_ok)
  /\ UNCHANGED <<config, file, frame, io_failed, stdin, key, events>>

enable_raw_mode ==
  /\ pc = "start"
  /\ \E get_ok, set_ok, restore_ok \in BOOLEAN :
       IF ~get_ok
         THEN \* tcgetattr failed: die before the handler is registered
              /\ die(restore_ok)
              /\ UNCHANGED <<orig_termios, atexit_registered>>
         ELSE /\ orig_termios' = "orig"
              /\ atexit_registered' = TRUE
              /\ IF set_ok
                   THEN /\ tty' = "raw"
                        /\ pc' = "init"
                        /\ UNCHANGED <<disable_ran, exit_status, exit_cause>>
                   ELSE \* tcsetattr(raw) failed: die, the handler now runs
                        run_exit(1, "fatal", TRUE, "orig", restore_ok)
  /\ UNCHANGED <<config, file, frame, io_failed, stdin, key, events>>

(***************************************************************************)
(* Key decoder                                                             *)
(***************************************************************************)

\* The bytes the keyboard sends in this model.
Digits == 48 .. 57                       \* '0' .. '9'
Letters == {65, 66, 67, 68, 70, 72}      \* 'A' 'B' 'C' 'D' 'F' 'H'
Bytes == {ESC, 91, 79, 126, 90, 120, 113, CTRL_KEY(113)} \cup Digits \cup Letters

\* One read(STDIN_FILENO, &c, 1): n is its return value, v the byte read
\* (n = 1) or errno (n = -1).
ReadByte(b) == [n |-> 1, v |-> b]
ReadNone == [n |-> 0, v |-> 0]
ReadErr(e) == [n |-> -1, v |-> e]
ReadResults == {ReadByte(b) : b \in Bytes} \cup {ReadNone, ReadErr(EAGAIN), ReadErr(EIO)}

\* What read_key gives back: the key, whether it called die() instead,
\* how many reads it made, whether it ran out of the reads given (blocked),
\* and whether a follow-up read that failed with a real error became a key.
KeyResult(k, n, sw) ==
  [key |-> k, died |-> FALSE, used |-> n, blocked |-> FALSE, swallowed |-> sw]
KeyDied(n) ==
  [key |-> NoKey, died |-> TRUE, used |-> n, blocked |-> FALSE, swallowed |-> FALSE]
KeyBlocked(n, sw) ==
  [key |-> NoKey, died |-> FALSE, used |-> n, blocked |-> TRUE, swallowed |-> sw]

IsRealError(r) == r.n = -1 /\ r.v # EAGAIN

\* The first-byte loop: while (read != 1) { if (-1 && errno != EAGAIN) die }
\* Returns the index of the read that ends the loop, 0 when none does.
RECURSIVE first_byte(_, _)
first_byte(reads, i) ==
  IF i > Len(reads) THEN 0
  ELSE IF reads[i].n = 1 \/ IsRealError(reads[i]) THEN i
  ELSE first_byte(reads, i + 1)

\* switch (seq[1]) of ESC [ digit ~; ESC when no case matches.
csi_digit_key_with_4(d) ==
  CASE d = 49 -> HOME_KEY
    [] d = 50 -> END_KEY
    [] d = 51 -> DEL_KEY
    [] d = 52 -> END_KEY
    [] d = 53 -> PAGE_UP
    [] d = 54 -> PAGE_DOWN
    [] d = 55 -> HOME_KEY
    [] d = 56 -> END_KEY
    [] OTHER -> ESC

csi_digit_key(d) ==
  CASE d = 49 -> HOME_KEY
    [] d = 50 -> END_KEY
    [] d = 51 -> DEL_KEY
    [] d = 53 -> PAGE_UP
    [] d = 54 -> PAGE_DOWN
    [] d = 55 -> HOME_KEY
    [] d = 56 -> END_KEY
    [] OTHER -> ESC

\* switch (seq[1]) of ESC [ letter
csi_letter_key(l) ==
  CASE l = 65 -> ARROW_UP
    [] l = 66 -> ARROW_DOWN
    [] l = 67 -> ARROW_RIGHT
    [] l = 68 -> ARROW_LEFT
    [] l = 72 -> HOME_KEY
    [] l = 70 -> END_KEY
    [] OTHER -> ESC

\* The ESC O branch left out.
ss3_key_unhandled(l) == ESC

\* switch (seq[1]) of ESC O letter
ss3_key(l) ==
  CASE l = 72 -> HOME_KEY
    [] l = 70 -> END_KEY
    [] OTHER -> ESC

\* The escape-sequence branch, the ESC having been read at index i.  A
\* follow-up read that gives no byte returns ESC, whatever made it fail.
read_escape(reads, i) ==
  LET seq0 == reads[i + 1].v
      seq1 == reads[i + 2].v
      seq2 == reads[i + 3].v
  IN  IF i + 1 > Len(reads) THEN KeyBlocked(i, FALSE)
      ELSE IF reads[i + 1].n # 1 THEN KeyResult(ESC, i + 1, IsRealError(reads[i + 1]))
      ELSE IF i + 2 > Len(reads) THEN KeyBlocked(i + 1, FALSE)
      ELSE IF reads[i + 2].n # 1 THEN KeyResult(ESC, i + 2, IsRealError(reads[i + 2]))
      ELSE IF seq0 = 91 THEN   \* '['
        IF seq1 >= 48 /\ seq1 <= 57 THEN
          IF i + 3 > Len(reads) THEN KeyBlocked(i + 2, FALSE)
          ELSE IF reads[i + 3].n # 1
            THEN KeyResult(ESC, i + 3, IsRealError(reads[i + 3]))
          ELSE IF seq2 = 126 THEN KeyResult(csi_digit_key(seq1), i + 3, FALSE)
          ELSE KeyResult(ESC, i + 3, FALSE)
        ELSE KeyResult(csi_letter_key(seq1), i + 2, FALSE)
      ELSE IF seq0 = 79 THEN KeyResult(ss3_key(seq1), i + 2, FALSE)   \* 'O'
      ELSE KeyResult(ESC, i + 2, FALSE)

\* read_key() run against the results `reads` of its read() calls.
read_key(reads) ==
  LET i == first_byte(reads, 1)
  IN  IF i = 0 THEN KeyBlocked(Len(reads), FALSE)
      ELSE IF reads[i].n # 1 THEN KeyDied(i)
      ELSE IF reads[i].v = ESC THEN read_escape(reads, i)
      ELSE KeyResult(reads[i].v, i, FALSE)

\* The read sequences one call of read_key consumes, built read by read:
\* a sequence is extended while read_key is still waiting for a byte.
Extend(S) ==
  {s \in S : ~read_key(s).blocked} \cup
  {s \o <<r>> : s \in {t \in S : read_key(t).blocked /\ first_byte(t, 1) # 0},
                r \in ReadResults}
IdleReads == {ReadNone, ReadErr(EAGAIN)}
IdlePrefixes == UNION {[1 .. n -> IdleReads] : n \in 0 .. MaxIdle}
FirstReads ==
  {p \o <<r>> : p \in IdlePrefixes,
                r \in {q \in ReadResults : q.n = 1 \/ IsRealError(q)}}
KeyReads == Extend(Extend(Extend(FirstReads)))

\* What process_key_press can get from read_key: every result of a complete
\* call, without the reads that led to it.
KeyOutcomes ==
  {[key |-> read_key(s).key, died |-> read_key(s).died,
    swallowed |-> read_key(s).swallowed] : s \in KeyReads}

(***************************************************************************)
(* Terminal geometry                                                       *)
(***************************************************************************)

\* The sizes a terminal reports: the small ones, the classic 24 x 80 and a
\* narrow 24 x 20.
Sizes ==
  {[rows |-> r, cols |-> c] : r \in 0 .. MaxTermRows, c \in 0 .. MaxTermCols}
    \cup {[rows |-> 24, cols |-> 80], [rows |-> 24, cols |-> 20]}

Failed == [ok |-> FALSE, rows |-> 0, cols |-> 0]
Probed(sz) == [ok |-> TRUE, rows |-> sz.rows, cols |-> sz.cols]

\* get_cursor_position: the query is written, the reply is read and parsed;
\* reply is the size parsed from "ESC [ rows ; cols R", or Failed when the
\* reply is missing or malformed.
get_cursor_position(write_ok, reply) ==
  IF ~write_ok THEN Failed ELSE reply

\* get_window_size: ioctl(TIOCGWINSZ), and when it fails or reports zero
\* columns, the cursor is sent to the bottom right and its position asked.
get_window_size(ioctl_ok, ws, write_ok, query_ok, reply) ==
  IF ~ioctl_ok \/ ws.cols = 0
    THEN IF ~write_ok THEN Failed ELSE get_cursor_position(query_ok, reply)
    ELSE Probed(ws)

(***************************************************************************)
(* Row store                                                               *)
(***************************************************************************)
CR == "\r"
LF == "\n"
FileBytes == {"a", CR, LF}
Files == UNION {[1 .. n -> FileBytes] : n \in 0 .. MaxFileLen}

num_rows(c) == Len(c.row)

\* append_row(s, len): a new last row holding the first len bytes of s.
append_row(rows, s, len) ==
  Append(rows, [size |-> len, chars |-> SubSeq(s, 1, len)])

\* getline: the bytes up to and including the next '\n', or up to the end
\* of the file; -1 (here the empty sequence) at the end of the file.
RECURSIVE line_end(_, _)
line_end(bytes, i) ==
  IF i > Len(bytes) THEN Len(bytes)
  ELSE IF bytes[i] = LF THEN i
  ELSE line_end(bytes, i + 1)

getline(bytes) == SubSeq(bytes, 1, line_end(bytes, 1))

\* while (line_len > 0 && (line[line_len - 1] == '\n' || ... == '\r')) line_len--
RECURSIVE strip_len(_, _)
strip_len(line, line_len) ==
  IF line_len > 0 /\ (line[line_len] = LF \/ line[line_len] = CR)
    THEN strip_len(line, line_len - 1)
    ELSE line_len

\* The getline loop of editor_open over the bytes still unread.
RECURSIVE read_lines(_, _)
read_lines(bytes, rows) ==
  IF bytes = <<>> THEN rows
  ELSE LET line == getline(bytes)
       IN  read_lines(SubSeq(bytes, Len(line) + 1, Len(bytes)),
                      append_row(rows, line, strip_len(line, Len(line))))

(***************************************************************************)
(* Output                                                                  *)
(***************************************************************************)

\* scroll() with the "+ 1" of the two far-edge adjustments left out.
scroll_off_by_one(c) ==
  LET ro1 == IF c.cur_y < c.row_offset THEN c.cur_y ELSE c.row_offset
      ro2 == IF c.cur_y >= ro1 + c.terminal_rows
               THEN c.cur_y - c.terminal_rows ELSE ro1
      co1 == IF c.cur_x < c.col_offset THEN c.cur_x ELSE c.col_offset
      co2 == IF c.cur_x >= co1 + c.terminal_cols
               THEN c.cur_x - c.terminal_cols ELSE co1
  IN  [c EXCEPT !.row_offset = ro2, !.col_offset = co2]

\* scroll() putting the cursor on the first row and column of the window
\* whenever it was beyond the far edge.
scroll_to_near_edge(c) ==
  LET ro1 == IF c.cur_y < c.row_offset THEN c.cur_y ELSE c.row_offset
      ro2 == IF c.cur_y >= ro1 + c.terminal_rows THEN c.cur_y ELSE ro1
      co1 == IF c.cur_x < c.col_offset THEN c.cur_x ELSE c.col_offset
      co2 == IF c.cur_x >= co1 + c.terminal_cols THEN c.cur_x ELSE co1
  IN  [c EXCEPT !.row_offset = ro2, !.col_offset = co2]

\* scroll(): bring the offsets to the cursor.
scroll(c) ==
  LET ro1 == IF c.cur_y < c.row_offset THEN c.cur_y ELSE c.row_offset
      ro2 == IF c.cur_y >= ro1 + c.terminal_rows
               THEN c.cur_y - c.terminal_rows + 1 ELSE ro1
      co1 == IF c.cur_x < c.col_offset THEN c.cur_x ELSE c.col_offset
      co2 == IF c.cur_x >= co1 + c.terminal_cols
               THEN c.cur_x - c.terminal_cols + 1 ELSE co1
  IN  [c EXCEPT !.row_offset = ro2, !.col_offset = co2]

\* Escape sequences, each one element of a frame.
HIDE_CURSOR == "\\x1b[?25l"
SHOW_CURSOR == "\\x1b[?25h"
CURSOR_HOME == "\\x1b[H"
ERASE_LINE == "\\x1b[K"
CRLF == "\\r\\n"
\* snprintf (buf, sizeof (buf), "\\x1b[%d;%dH", r, c)
CursorTo(r, c) == <<"\\x1b[" \o ToString(r) \o ";" \o ToString(c) \o "H">>

PICO_VERSION == <<"0", ".", "0", ".", "5">>
\* snprintf (welcome, sizeof (welcome), "Pico editor -- version %s", PICO_VERSION)
welcome ==
  <<"P", "i", "c", "o", " ", "e", "d", "i", "t", "o", "r", " ", "-", "-", " ",
    "v", "e", "r", "s", "i", "o", "n", " ">> \o PICO_VERSION

Spaces(n) == [i \in 1 .. n |-> " "]

\* The banner row of draw_rows.  A negative padding makes while (padding--)
\* count down from a negative number: the loop does not end (hang).
banner_row(c) ==
  LET len0 == Len(welcome)
      welcome_len == IF len0 > c.terminal_rows THEN c.terminal_rows ELSE len0
      padding == CDiv(c.terminal_cols - welcome_len, 2)
  IN  IF padding < 0 THEN [hang |-> TRUE, out |-> <<"~">>]
      ELSE [hang |-> FALSE,
            out |-> (IF padding # 0 THEN <<"~">> \o Spaces(padding - 1) ELSE <<>>)
                      \o SubSeq(welcome, 1, welcome_len)]

\* What draw_rows appends for screen row y before the erase escape.
draw_row(c, y) ==
  LET file_row == y + c.row_offset
  IN  IF file_row >= num_rows(c)
        THEN IF num_rows(c) = 0 /\ y = CDiv(c.terminal_rows, 3)
               THEN banner_row(c)
               ELSE [hang |-> FALSE, out |-> <<"~">>]
        ELSE LET len0 == c.row[file_row + 1].size - c.col_offset
                 len1 == IF len0 < 0 THEN 0 ELSE len0
                 len == IF len1 > c.terminal_cols THEN c.terminal_cols ELSE len1
             IN  [hang |-> FALSE,
                  out |-> IF len = 0 THEN <<>>
                          ELSE SubSeq(c.row[file_row + 1].chars,
                                      c.col_offset + 1, c.col_offset + len)]

\* draw_rows: the rows y, y + 1, ... of the screen, one after the other.
RECURSIVE draw_rows(_, _)
draw_rows(c, y) ==
  IF y >= c.terminal_rows THEN [hang |-> FALSE, out |-> <<>>]
  ELSE LET r == draw_row(c, y)
           rest == draw_rows(c, y + 1)
       IN  IF r.hang THEN r
           ELSE [hang |-> rest.hang,
                 out |-> r.out \o <<ERASE_LINE>>
                           \o (IF y < c.terminal_rows - 1 THEN <<CRLF>> ELSE <<>>)
                           \o rest.out]

\* The append buffer refresh_screen builds, c being the state after scroll().
build_frame(c) ==
  LET rows == draw_rows(c, 0)
  IN  [hang |-> rows.hang,
       out |-> <<HIDE_CURSOR, CURSOR_HOME>> \o rows.out
                 \o CursorTo((c.cur_y - c.row_offset) + 1, (c.cur_x - c.col_offset) + 1)
                 \o <<SHOW_CURSOR>>]

\* refresh_screen building and writing the frame before it scrolls.
refresh_screen_draw_first ==
  /\ pc = "refresh"
  /\ \E write_ok \in BOOLEAN :
       LET c == scroll(config)
           ab == build_frame(config)
       IN  /\ config' = c
           /\ IF ab.hang
                THEN /\ pc' = "hung"
                     /\ events' = <<"scroll">>
                     /\ UNCHANGED <<frame, io_failed>>
                ELSE /\ pc' = "key"
                     /\ events' = <<"build", "write", "scroll">>
                     /\ frame' = IF write_ok THEN ab.out ELSE frame
                     /\ io_failed' = (io_failed \/ ~write_ok)
  /\ key' = NoKey
  /\ UNCHANGED <<tty, orig_termios, atexit_registered, disable_ran, exit_status,
                 exit_cause, file, stdin>>

\* refresh_screen: scroll, build the frame, write it; the result of the
\* write is not looked at.
refresh_screen ==
  /\ pc = "refresh"
  /\ \E write_ok \in BOOLEAN :
       LET c == scroll(config)
           ab == build_frame(c)
       IN  /\ config' = c
           /\ IF ab.hang
                THEN /\ pc' = "hung"
                     /\ events' = <<"scroll">>
                     /\ UNCHANGED <<frame, io_failed>>
                ELSE /\ pc' = "key"
                     /\ events' = <<"scroll", "build", "write">>
                     /\ frame' = IF write_ok THEN ab.out ELSE frame
                     /\ io_failed' = (io_failed \/ ~write_ok)
  /\ key' = NoKey
  /\ UNCHANGED <<tty, orig_termios, atexit_registered, disable_ran, exit_status,
                 exit_cause, file, stdin>>

(***************************************************************************)
(* Input                                                                   *)
(***************************************************************************)

\* move_cursor with ARROW_DOWN not stopped at num_rows.
move_cursor_down_unclamped(c, k) ==
  LET n == num_rows(c)
      has_row == c.cur_y < n
      size == IF has_row THEN c.row[c.cur_y + 1].size ELSE 0
      moved ==
        CASE k = ARROW_LEFT ->
               IF c.cur_x > 0 THEN [c EXCEPT !.cur_x = c.cur_x - 1]
               ELSE IF c.cur_y > 0
                 THEN [c EXCEPT !.cur_y = c.cur_y - 1, !.cur_x = c.row[c.cur_y].size]
                 ELSE c
          [] k = ARROW_RIGHT ->
               IF has_row /\ c.cur_x < size THEN [c EXCEPT !.cur_x = c.cur_x + 1]
               ELSE IF has_row /\ c.cur_x = size
                 THEN [c EXCEPT !.cur_y = c.cur_y + 1, !.cur_x = 0]
                 ELSE c
          [] k = ARROW_UP ->
               IF c.cur_y > 0 THEN [c EXCEPT !.cur_y = c.cur_y - 1] ELSE c
          [] k = ARROW_DOWN ->
               [c EXCEPT !.cur_y = c.cur_y + 1]
          [] OTHER -> c
      row_len == IF moved.cur_y >= n THEN 0 ELSE moved.row[moved.cur_y + 1].size
  IN  IF moved.cur_x > row_len THEN [moved EXCEPT !.cur_x = row_len] ELSE moved

\* move_cursor without the final clamp of cur_x to the row.
move_cursor_no_clamp(c, k) ==
  LET n == num_rows(c)
      has_row == c.cur_y < n
      size == IF has_row THEN c.row[c.cur_y + 1].size ELSE 0
      moved ==
        CASE k = ARROW_LEFT ->
               IF c.cur_x > 0 THEN [c EXCEPT !.cur_x = c.cur_x - 1]
               ELSE IF c.cur_y > 0
                 THEN [c EXCEPT !.cur_y = c.cur_y - 1, !.cur_x = c.row[c.cur_y].size]
                 ELSE c
          [] k = ARROW_RIGHT ->
               IF has_row /\ c.cur_x < size THEN [c EXCEPT !.cur_x = c.cur_x + 1]
               ELSE IF has_row /\ c.cur_x = size
                 THEN [c EXCEPT !.cur_y = c.cur_y + 1, !.cur_x = 0]
                 ELSE c
          [] k = ARROW_UP ->
               IF c.cur_y > 0 THEN [c EXCEPT !.cur_y = c.cur_y - 1] ELSE c
          [] k = ARROW_DOWN ->
               IF c.cur_y < n THEN [c EXCEPT !.cur_y = c.cur_y + 1] ELSE c
          [] OTHER -> c
      row_len == IF moved.cur_y >= n THEN 0 ELSE moved.row[moved.cur_y + 1].size
  IN  moved

\* move_cursor(key)
move_cursor(c, k) ==
  LET n == num_rows(c)
      has_row == c.cur_y < n
      size == IF has_row THEN c.row[c.cur_y + 1].size ELSE 0
      moved ==
        CASE k = ARROW_LEFT ->
               IF c.cur_x > 0 THEN [c EXCEPT !.cur_x = c.cur_x - 1]
               ELSE IF c.cur_y > 0
                 THEN [c EXCEPT !.cur_y = c.cur_y - 1, !.cur_x = c.row[c.cur_y].size]
                 ELSE c
          [] k = ARROW_RIGHT ->
               IF has_row /\ c.cur_x < size THEN [c EXCEPT !.cur_x = c.cur_x + 1]
               ELSE IF has_row /\ c.cur_x = size
                 THEN [c EXCEPT !.cur_y = c.cur_y + 1, !.cur_x = 0]
                 ELSE c
          [] k = ARROW_UP ->
               IF c.cur_y > 0 THEN [c EXCEPT !.cur_y = c.cur_y - 1] ELSE c
          [] k = ARROW_DOWN ->
               IF c.cur_y < n THEN [c EXCEPT !.cur_y = c.cur_y + 1] ELSE c
          [] OTHER -> c
      row_len == IF moved.cur_y >= n THEN 0 ELSE moved.row[moved.cur_y + 1].size
  IN  IF moved.cur_x > row_len THEN [moved EXCEPT !.cur_x = row_len] ELSE moved

\* The loop run once too often: while (times-- >= 0).
RECURSIVE move_times_one_more(_, _, _)
move_times_one_more(c, k, times) ==
  IF times < 0 THEN c ELSE move_times_one_more(move_cursor(c, k), k, times - 1)

\* while (times--) move_cursor (key)
RECURSIVE move_times(_, _, _)
move_times(c, k, times) ==
  IF times = 0 THEN c ELSE move_times(move_cursor(c, k), k, times - 1)

\* The switch with a DEL_KEY case that empties the row under the cursor.
dispatch_key_del_edits(c, k) ==
  CASE k = HOME_KEY -> [c EXCEPT !.cur_x = 0]
    [] k = END_KEY -> [c EXCEPT !.cur_x = c.terminal_cols - 1]
    [] k = PAGE_UP -> move_times(c, ARROW_UP, c.terminal_rows)
    [] k = PAGE_DOWN -> move_times(c, ARROW_DOWN, c.terminal_rows)
    [] k \in {ARROW_UP, ARROW_DOWN, ARROW_LEFT, ARROW_RIGHT} -> move_cursor(c, k)
    [] k = DEL_KEY /\ c.cur_y >= 0 /\ c.cur_y < num_rows(c) ->
         [c EXCEPT !.row[c.cur_y + 1] = [size |-> 0, chars |-> <<>>]]
    [] OTHER -> c

\* The switch of process_key_press for every key but the quit key.
dispatch_key(c, k) ==
  CASE k = HOME_KEY -> [c EXCEPT !.cur_x = 0]
    [] k = END_KEY -> [c EXCEPT !.cur_x = c.terminal_cols - 1]
    [] k = PAGE_UP -> move_times(c, ARROW_UP, c.terminal_rows)
    [] k = PAGE_DOWN -> move_times(c, ARROW_DOWN, c.terminal_rows)
    [] k \in {ARROW_UP, ARROW_DOWN, ARROW_LEFT, ARROW_RIGHT} -> move_cursor(c, k)
    [] OTHER -> c

\* process_key_press, o being what read_key came back with.
key_press(o, restore_ok) ==
  IF o.died
    THEN /\ die(restore_ok)
         /\ io_failed' = TRUE
         /\ UNCHANGED <<config, key>>
    ELSE /\ io_failed' = (io_failed \/ o.swallowed)
         /\ key' = IF o.key >= ARROW_LEFT THEN o.key ELSE NoKey
         /\ IF o.key = CTRL_KEY(113)
              THEN /\ exit_process(0, "quit", restore_ok)
                   /\ UNCHANGED config
              ELSE /\ config' = dispatch_key(config, o.key)
                   /\ pc' = "refresh"
                   /\ UNCHANGED <<tty, disable_ran, exit_status, exit_cause>>

process_key_press ==
  /\ pc = "key"
  /\ \E o \in KeyOutcomes, restore_ok \in BOOLEAN : key_press(o, restore_ok)
  /\ events' = Append(events, "read_key")
  /\ UNCHANGED <<orig_termios, atexit_registered, file, frame, stdin>>

(***************************************************************************)
(* Init                                                                    *)
(***************************************************************************)

\* init_editor: zero the cursor, the offsets and the row store, probe the size.
init_editor ==
  /\ pc = "init"
  /\ \E ioctl_ok, write_ok, query_ok, restore_ok \in BOOLEAN,
        ws \in Sizes, reply \in {Failed} \cup {Probed(sz) : sz \in Sizes} :
       LET g == get_window_size(ioctl_ok, ws, write_ok, query_ok, reply)
       IN  IF g.ok
             THEN /\ config' = [cur_x |-> 0, cur_y |-> 0, row_offset |-> 0,
                                col_offset |-> 0, terminal_rows |-> g.rows,
                                terminal_cols |-> g.cols, row |-> <<>>]
                  /\ pc' = "open"
                  /\ UNCHANGED <<tty, disable_ran, exit_status, exit_cause>>
             ELSE /\ die(restore_ok)
                  /\ UNCHANGED config
  /\ UNCHANGED <<orig_termios, atexit_registered, file, frame, io_failed, stdin, key,
                 events>>

\* editor_open (argv[1]) when argc >= 2: fopen, then a row for every line.
editor_open ==
  /\ pc = "open"
  /\ IF file = NoArg
       THEN /\ pc' = "refresh"
            /\ UNCHANGED <<config, tty, disable_ran, exit_status, exit_cause>>
       ELSE \E fopen_ok, restore_ok \in BOOLEAN :
              IF fopen_ok
                THEN /\ config' = [config EXCEPT !.row = read_lines(file, config.row)]
                     /\ pc' = "refresh"
                     /\ UNCHANGED <<tty, disable_ran, exit_status, exit_cause>>
                ELSE /\ die(restore_ok)
                     /\ UNCHANGED config
  /\ UNCHANGED <<orig_termios, atexit_registered, file, frame, io_failed, stdin, key,
                 events>>

\* The process at the entry of main(): the globals are zero, the terminal
\* has its own attributes, argv is any file of the model or none.
Init ==
  /\ pc = "start"
  /\ tty = "orig"
  /\ orig_termios = "unset"
  /\ atexit_registered = FALSE
  /\ disable_ran = "not run"
  /\ exit_status = NoStatus
  /\ exit_cause = "none"
  /\ config = [cur_x |-> 0, cur_y |-> 0, row_offset |-> 0, col_offset |-> 0,
               terminal_rows |-> 0, terminal_cols |-> 0, row |-> <<>>]
  /\ file \in Files \cup {NoArg}
  /\ frame = <<>>
  /\ io_failed = FALSE
  /\ stdin = <<>>
  /\ key = NoKey
  /\ events = <<>>

\* KeySpec: one call of read_key against the reads in stdin.
read_key_call ==
  /\ pc = "key"
  /\ LET r == read_key(stdin)
     IN  IF r.died
           THEN /\ \E restore_ok \in BOOLEAN : die(restore_ok)
                /\ io_failed' = TRUE
                /\ key' = key
           ELSE /\ key' = r.key
                /\ pc' = "decoded"
                /\ io_failed' = (io_failed \/ r.swallowed)
                /\ UNCHANGED <<tty, disable_ran, exit_status, exit_cause>>
  /\ events' = Append(events, "read_key")
  /\ UNCHANGED <<orig_termios, atexit_registered, config, file, frame, stdin>>

\* KeySpec starts in the render loop of a process started without a file
\* on a 24 x 80 terminal, its first frame drawn, about to call read_key.
KeyInit ==
  /\ pc = "key"
  /\ tty = "raw"
  /\ orig_termios = "orig"
  /\ atexit_registered = TRUE
  /\ disable_ran = "not run"
  /\ exit_status = NoStatus
  /\ exit_cause = "none"
  /\ config = [cur_x |-> 0, cur_y |-> 0, row_offset |-> 0, col_offset |-> 0,
               terminal_rows |-> 24, terminal_cols |-> 80, row |-> <<>>]
  /\ file = NoArg
  /\ frame = build_frame(config).out
  /\ io_failed = FALSE
  /\ stdin \in KeyReads
  /\ key = NoKey
  /\ events = <<"scroll", "build", "write">>

KeyNext == read_key_call

KeySpec == KeyInit /\ [][KeyNext]_vars

Next ==
  \/ enable_raw_mode
  \/ init_editor
  \/ editor_open
  \/ refresh_screen
  \/ process_key_press

Spec == Init /\ [][Next]_vars

(***************************************************************************)
(* Properties                                                              *)
(***************************************************************************)

\* The process is in the render loop (hung: inside a frame that never ends).
InLoop == pc \in {"refresh", "key", "hung"}

RowSize(c, y) == IF y >= 0 /\ y < num_rows(c) THEN c.row[y + 1].size ELSE 0

\* C1: in every state of the render loop, 0 <= cur_x <= size of row cur_y,
\* the size being 0 when cur_y = num_rows.
C1_CursorXWithinRow ==
  InLoop => /\ 0 <= config.cur_x
            /\ config.cur_x <= RowSize(config, config.cur_y)

\* C2: right after scroll() (refresh_screen has run it and the key is not yet
\* read), on a terminal with rows > 0 and cols > 0, the cursor is inside the
\* window: row_offset <= cur_y < row_offset + terminal_rows and
\* col_offset <= cur_x < col_offset + terminal_cols.
C2_CursorVisibleAfterScroll ==
  (pc \in {"key", "hung"} /\ config.terminal_rows > 0 /\ config.terminal_cols > 0)
    => /\ config.row_offset <= config.cur_y
       /\ config.cur_y < config.row_offset + config.terminal_rows
       /\ config.col_offset <= config.cur_x
       /\ config.cur_x < config.col_offset + config.terminal_cols

\* C2 witness: scroll() has moved both offsets to follow the cursor.
C2_Witness ==
  /\ pc = "key"
  /\ config.terminal_rows > 0 /\ config.terminal_cols > 0
  /\ config.row_offset > 0 /\ config.col_offset > 0
  /\ config.cur_y = config.row_offset + config.terminal_rows - 1
  /\ config.cur_x = config.col_offset + config.terminal_cols - 1

\* C3: when the process is gone and enable_raw_mode had captured the
\* original attributes, disable_raw_mode has run, and the terminal has the
\* original attributes again unless that very tcsetattr failed.
C3_RestoredOnEveryExit ==
  (pc = "exited" /\ orig_termios = "orig")
    => /\ disable_ran # "not run"
       /\ (disable_ran = "restored" => tty = "orig")

\* C3 witness: the quit key ended a process in raw mode and the terminal
\* is back to its original attributes.
C3_Witness ==
  /\ pc = "exited" /\ exit_cause = "quit"
  /\ orig_termios = "orig" /\ disable_ran = "restored" /\ tty = "orig"

\* The reads of the call from the one that ended the first-byte loop, and
\* the bytes they gave when every one of them gave a byte.
AfterIdle == SubSeq(stdin, first_byte(stdin, 1), Len(stdin))
TypedBytes ==
  IF \A i \in 1 .. Len(AfterIdle) : AfterIdle[i].n = 1
    THEN [i \in 1 .. Len(AfterIdle) |-> AfterIdle[i].v]
    ELSE <<>>

\* The recognized sequences and their keys, as the claim lists them.
RecognizedKeys ==
  { <<<<ESC, 91, 49, 126>>, HOME_KEY>>, <<<<ESC, 91, 55, 126>>, HOME_KEY>>,
    <<<<ESC, 91, 50, 126>>, END_KEY>>, <<<<ESC, 91, 56, 126>>, END_KEY>>,
    <<<<ESC, 91, 51, 126>>, DEL_KEY>>, <<<<ESC, 91, 53, 126>>, PAGE_UP>>,
    <<<<ESC, 91, 54, 126>>, PAGE_DOWN>>,
    <<<<ESC, 91, 65>>, ARROW_UP>>, <<<<ESC, 91, 66>>, ARROW_DOWN>>,
    <<<<ESC, 91, 67>>, ARROW_RIGHT>>, <<<<ESC, 91, 68>>, ARROW_LEFT>>,
    <<<<ESC, 91, 72>>, HOME_KEY>>, <<<<ESC, 91, 70>>, END_KEY>>,
    <<<<ESC, 79, 72>>, HOME_KEY>>, <<<<ESC, 79, 70>>, END_KEY>> }

\* C4: read_key decodes every complete recognized sequence to the key the
\* claim lists for it, and returns a first byte other than ESC as it is.
C4_RecognizedSequencesDecoded ==
  pc = "decoded"
    => /\ \A e \in RecognizedKeys : TypedBytes = e[1] => key = e[2]
       /\ (Len(TypedBytes) = 1 /\ TypedBytes[1] # ESC) => key = TypedBytes[1]

\* C4 witness: ESC O H has been decoded to HOME_KEY.
C4_Witness ==
  pc = "decoded" /\ TypedBytes = <<ESC, 79, 72>> /\ key = HOME_KEY

\* C5: after an ESC first byte, whenever the reads that follow are not one
\* of the recognized sequences (a follow-up read gave no byte, or the bytes
\* form no known sequence), read_key returns the bare ESC.
C5_UnrecognizedIsBareEscape ==
  (pc = "decoded" /\ AfterIdle[1] = ReadByte(ESC)
     /\ TypedBytes \notin {e[1] : e \in RecognizedKeys})
    => key = ESC

\* C5 witness: ESC [ 4 ~ has been read and the bare ESC returned.
C5_Witness ==
  pc = "decoded" /\ TypedBytes = <<ESC, 91, 52, 126>> /\ key = ESC

Pos(c) == <<c.cur_y, c.cur_x>>

\* C6: from the last column of a non-final row, ARROW_RIGHT then ARROW_LEFT
\* brings the cursor back; at the first position ARROW_LEFT changes nothing;
\* with cur_y = num_rows ARROW_RIGHT changes nothing.
C6_RightLeftRoundTrip ==
  InLoop
    => /\ (config.cur_y < num_rows(config) - 1
             /\ config.cur_x = RowSize(config, config.cur_y))
          => Pos(move_cursor(move_cursor(config, ARROW_RIGHT), ARROW_LEFT)) = Pos(config)
       /\ (config.cur_y = 0 /\ config.cur_x = 0)
          => move_cursor(config, ARROW_LEFT) = config
       /\ config.cur_y = num_rows(config)
          => move_cursor(config, ARROW_RIGHT) = config

\* The lines of a file, each with its terminator, and a line with only its
\* terminator (one "\n" or one "\r\n") taken off, as the claim reads them.
RECURSIVE FileLines(_)
FileLines(bytes) ==
  IF bytes = <<>> THEN <<>>
  ELSE LET e == line_end(bytes, 1)
       IN  <<SubSeq(bytes, 1, e)>> \o FileLines(SubSeq(bytes, e + 1, Len(bytes)))

WithoutTerminator(line) ==
  LET n == Len(line)
  IN  IF n >= 2 /\ line[n - 1] = CR /\ line[n] = LF THEN SubSeq(line, 1, n - 2)
      ELSE IF n >= 1 /\ line[n] = LF THEN SubSeq(line, 1, n - 1)
      ELSE line

\* C7: after editor_open the rows are the lines of the file, in order, each
\* without its line terminator and with every other byte kept.
C7_RowsAreLinesWithoutTerminator ==
  (InLoop /\ file # NoArg)
    => LET lines == FileLines(file)
       IN  /\ num_rows(config) = Len(lines)
           /\ \A i \in 1 .. Len(lines) :
                /\ config.row[i].chars = WithoutTerminator(lines[i])
                /\ config.row[i].size = Len(config.row[i].chars)

\* The screen rows of a frame: what lies between the cursor-home escape and
\* the cursor-position escape, cut at the line breaks, each row without its
\* erase-to-end-of-line escape.
RECURSIVE SplitAt(_, _)
SplitAt(s, sep) ==
  IF \A i \in 1 .. Len(s) : s[i] # sep THEN <<s>>
  ELSE LET i == CHOOSE j \in 1 .. Len(s) :
                  s[j] = sep /\ \A k \in 1 .. j - 1 : s[k] # sep
       IN  <<SubSeq(s, 1, i - 1)>> \o SplitAt(SubSeq(s, i + 1, Len(s)), sep)

ScreenRows(f) ==
  LET body == SplitAt(SubSeq(f, 3, Len(f) - 2), CRLF)
  IN  [y \in 1 .. Len(body) |-> SelectSeq(body[y], LAMBDA t : t # ERASE_LINE)]

\* A row that shows the whole banner with as many columns left as right of it.
IsCenteredBanner(r, cols) ==
  LET pad == (cols - Len(welcome)) \div 2
  IN  /\ Len(r) = pad + Len(welcome)
      /\ SubSeq(r, pad + 1, Len(r)) = welcome
      /\ \A i \in 1 .. pad : r[i] \in {"~", " "}

\* C8: the frame of an empty Row Store on a 24 x 80 terminal has the banner
\* "Pico editor -- version 0.0.5" centered on screen row 8 and "~" alone on
\* every other row.
C8_EmptyStoreBanner ==
  (pc = "key" /\ frame # <<>> /\ num_rows(config) = 0
     /\ config.terminal_rows = 24 /\ config.terminal_cols = 80)
    => LET r == ScreenRows(frame)
       IN  /\ Len(r) = 24
           /\ IsCenteredBanner(r[8 + 1], 80)
           /\ \A y \in 0 .. 23 : y # 8 => r[y + 1] = <<"~">>

\* C9: a read or write of the render loop that failed with a real error has
\* ended the process through die().
C9_IoFailureIsFatal ==
  io_failed => (pc = "exited" /\ exit_cause = "fatal")

\* C10: the exit status is 0 when the quit key ended the process and
\* non-zero when a fatal error did.
C10_ExitStatus ==
  pc = "exited"
    => /\ exit_cause \in {"quit", "fatal"}
       /\ exit_cause = "quit" => exit_status = 0
       /\ exit_cause = "fatal" => (exit_status # 0 /\ exit_status # NoStatus)

\* C10 witness: a process that reached the render loop was ended by Ctrl-Q
\* with status 0.
C10_Witness ==
  pc = "exited" /\ exit_cause = "quit" /\ exit_status = 0 /\ frame # <<>>

\* C11: in every state of the render loop 0 <= cur_y <= num_rows.
C11_CursorYWithinFile ==
  InLoop => (0 <= config.cur_y /\ config.cur_y <= num_rows(config))

\* C11 witness: the cursor has been moved past the last row of a file.
C11_Witness ==
  /\ pc = "refresh" /\ key \in {ARROW_DOWN, ARROW_RIGHT, PAGE_DOWN}
  /\ num_rows(config) > 0 /\ config.cur_y = num_rows(config)

\* C12: a PAGE_DOWN key press moves cur_y down by at most terminal_rows and
\* leaves it at most num_rows.
C12_PageDownBounded ==
  [][(pc = "key" /\ key' = PAGE_DOWN)
       => /\ config'.cur_y >= config.cur_y
          /\ config'.cur_y - config.cur_y <= config.terminal_rows
          /\ config'.cur_y <= num_rows(config')]_vars

\* C12 witness: PAGE_DOWN has taken the cursor down a file of more rows
\* than the terminal has, without reaching its end.
C12_Witness ==
  /\ pc = "refresh" /\ key = PAGE_DOWN
  /\ config.terminal_rows > 0
  /\ config.cur_y = config.terminal_rows
  /\ config.cur_y < num_rows(config)

\* C13: in every iteration of the main loop scroll() comes first, then the
\* frame is built, then one write flushes it, and only then a key is read.
\* The frame that was written is cursor-hide, cursor-home, terminal_rows
\* screen rows, the cursor position computed from the offsets scroll() left,
\* cursor-show.
C13_ScrollBuildWriteThenKey ==
  /\ pc = "key" => events = <<"scroll", "build", "write">>
  /\ (pc = "refresh" /\ events # <<>>)
       => events = <<"scroll", "build", "write", "read_key">>
  /\ (pc = "key" /\ ~io_failed)
       => /\ Len(frame) >= 4
          /\ SubSeq(frame, 1, 2) = <<HIDE_CURSOR, CURSOR_HOME>>
          /\ SubSeq(frame, Len(frame) - 1, Len(frame))
               = CursorTo((config.cur_y - config.row_offset) + 1,
                          (config.cur_x - config.col_offset) + 1) \o <<SHOW_CURSOR>>
          /\ config.terminal_rows > 0
               => Len(ScreenRows(frame)) = config.terminal_rows
          /\ Cardinality({i \in 1 .. Len(frame) : frame[i] = ERASE_LINE})
               = config.terminal_rows

\* C13 witness: a second iteration has drawn its frame after a key moved
\* the cursor out of the window and scroll() followed it.
C13_Witness ==
  /\ pc = "key" /\ ~io_failed
  /\ events = <<"scroll", "build", "write">>
  /\ config.row_offset > 0 /\ config.terminal_rows > 0
  /\ frame[Len(frame) - 1] = CursorTo(config.terminal_rows, 1)[1]

\* The rows editor_open left in the Row Store.
LoadedRows == IF file = NoArg THEN <<>> ELSE read_lines(file, <<>>)

\* C14: in the render loop the Row Store is what loading left: no key press
\* and no frame changes num_rows or the size or bytes of a row.
C14_RowStoreUnchanged ==
  InLoop => config.row = LoadedRows

\* C14 witness: keys, DEL among them, have been pressed over a file with a
\* non-empty first row after frames were drawn.
C14_Witness ==
  /\ pc = "refresh" /\ key = DEL_KEY /\ frame # <<>>
  /\ num_rows(config) > 0 /\ config.row[1].size > 0
  /\ config.cur_y = 0 /\ config.cur_x > 0

\* The three cases of ARROW_LEFT as the claim states them, for a step from
\* c to d.
LeftWraps(c, d) ==
  (c.cur_x = 0 /\ c.cur_y > 0)
    => Pos(d) = <<c.cur_y - 1, RowSize(c, c.cur_y - 1)>>
LeftStaysAtOrigin(c, d) ==
  (c.cur_x = 0 /\ c.cur_y = 0) => d = c
LeftDecrements(c, d) ==
  c.cur_x > 0 => d = [c EXCEPT !.cur_x = c.cur_x - 1]

\* C15: an ARROW_LEFT key press at column 0 of a row below the first goes
\* to the end of the row above, at (0, 0) changes nothing, and at a column
\* > 0 only decrements cur_x.
C15_ArrowLeft ==
  [][(pc = "key" /\ key' = ARROW_LEFT)
       => /\ LeftWraps(config, config')
          /\ LeftStaysAtOrigin(config, config')
          /\ LeftDecrements(config, config')]_vars

\* The three cases of ARROW_RIGHT as the claim states them.
RightWraps(c, d) ==
  (c.cur_y < num_rows(c) /\ c.cur_x = RowSize(c, c.cur_y))
    => Pos(d) = <<c.cur_y + 1, 0>>
RightIncrements(c, d) ==
  (c.cur_y < num_rows(c) /\ c.cur_x < RowSize(c, c.cur_y))
    => d = [c EXCEPT !.cur_x = c.cur_x + 1]
RightStaysAtEnd(c, d) ==
  c.cur_y = num_rows(c) => d = c

\* C16: an ARROW_RIGHT key press at the end of a row goes to column 0 of
\* the next row (the end-of-file position after the last row), inside a row
\* only increments cur_x, and with cur_y = num_rows changes nothing.
C16_ArrowRight ==
  [][(pc = "key" /\ key' = ARROW_RIGHT)
       => /\ RightWraps(config, config')
          /\ RightIncrements(config, config')
          /\ RightStaysAtEnd(config, config')]_vars

Smaller(a, b) == IF a < b THEN a ELSE b

\* C17: an ARROW_UP or ARROW_DOWN key press moves cur_y by exactly one row
\* unless it is at 0 (UP) or at num_rows (DOWN), where it stays, and leaves
\* cur_x = min(old cur_x, size of the row at the new cur_y), 0 past the end.
C17_VerticalMoveClampsColumn ==
  [][(pc = "key" /\ key' \in {ARROW_UP, ARROW_DOWN})
       => /\ key' = ARROW_UP
               => config'.cur_y = IF config.cur_y = 0 THEN 0 ELSE config.cur_y - 1
          /\ key' = ARROW_DOWN
               => config'.cur_y = IF config.cur_y = num_rows(config)
                                    THEN config.cur_y ELSE config.cur_y + 1
          /\ config'.cur_x
               = Smaller(config.cur_x, RowSize(config, config'.cur_y))]_vars

\* C17 witness: ARROW_UP has brought the cursor to the end of a row that is
\* shorter than the row below it.
C17_Witness ==
  /\ pc = "refresh" /\ key = ARROW_UP
  /\ config.cur_y + 1 < num_rows(config)
  /\ config.cur_x = RowSize(config, config.cur_y)
  /\ RowSize(config, config.cur_y + 1) > config.cur_x

\* What draw_rows is to show on screen row y: the slice of the text row
\* from col_offset, at most terminal_cols long.
TextSlice(c, y) ==
  LET r == c.row[y + c.row_offset + 1]
      avail == IF r.size - c.col_offset > 0 THEN r.size - c.col_offset ELSE 0
      len == Smaller(avail, c.terminal_cols)
  IN  IF len = 0 THEN <<>> ELSE SubSeq(r.chars, c.col_offset + 1, c.col_offset + len)

IsBannerRow(c, y) == num_rows(c) = 0 /\ y = c.terminal_rows \div 3

\* C18: on a terminal of at least one column every screen row of a written
\* frame has at most terminal_cols visible characters: a text row is its
\* slice, a placeholder row is "~", and the banner row fits too.
C18_RowsFitTheWidth ==
  (pc = "key" /\ ~io_failed /\ config.terminal_cols >= 1 /\ config.terminal_rows >= 1)
    => LET r == ScreenRows(frame)
       IN  \A y \in 0 .. config.terminal_rows - 1 :
             /\ Len(r[y + 1]) <= config.terminal_cols
             /\ y + config.row_offset < num_rows(config)
                  => r[y + 1] = TextSlice(config, y)
             /\ (y + config.row_offset >= num_rows(config) /\ ~IsBannerRow(config, y))
                  => r[y + 1] = <<"~">>

\* C19: refresh_screen comes to an end: the process never sits in a frame
\* whose banner padding loop does not finish.
C19_RefreshTerminates == pc # "hung"

Distance(a, b) == IF a < b THEN b - a ELSE a - b

\* One axis of scroll(): cursor position p, window length n, offset from o
\* to o2.  Inside the window the offset stays; otherwise, when there is a
\* window (n > 0), the cursor ends on its first or last cell and no offset
\* nearer to o shows the cursor.
AxisScrolled(p, n, o, o2) ==
  IF o <= p /\ p < o + n
    THEN o2 = o
    ELSE n > 0
           => /\ p = o2 \/ p = o2 + n - 1
              /\ \A q \in (p - n + 1) .. p : Distance(o2, o) <= Distance(q, o)

\* C20: scroll() changes nothing but the offsets, leaves them alone when the
\* cursor is inside the window and otherwise moves each by the least amount
\* that shows the cursor on the nearest edge; the offsets are never negative.
C20_ScrollMovesOffsetsLeast ==
  /\ [](config.row_offset >= 0 /\ config.col_offset >= 0)
  /\ [][pc = "refresh"
          => /\ config' = [config EXCEPT !.row_offset = config'.row_offset,
                                         !.col_offset = config'.col_offset]
             /\ AxisScrolled(config.cur_y, config.terminal_rows,
                             config.row_offset, config'.row_offset)
             /\ AxisScrolled(config.cur_x, config.terminal_cols,
                             config.col_offset, config'.col_offset)]_vars

\* C20 witness: scroll() has followed the cursor down a file on a terminal
\* of two or more rows, the column offset staying where it was.
C20_Witness ==
  /\ pc = "key" /\ events = <<"scroll", "build", "write">>
  /\ config.terminal_rows >= 2 /\ config.terminal_cols >= 1
  /\ config.row_offset > 0 /\ config.col_offset = 0
  /\ config.cur_y = config.row_offset + config.terminal_rows - 1

====
